---------------------------- MODULE Spec2Model ----------------------------
(***************************************************************************)
(* Model of the veterinary-clinic API gateway (src/api_gateway/main.py)   *)
(* together with the parts of the auth service                            *)
(* (src/clients_pets_service/main.py) that the gateway depends on.        *)
(*                                                                         *)
(* Time is a discrete clock of seconds (`now`).  A Redis key written with *)
(* TTL d at time t is live exactly while now < t + d.  A JWT whose exp    *)
(* claim is e is accepted by jose exactly while now <= e.                 *)
(***************************************************************************)
EXTENDS Integers, Sequences, FiniteSets, TLC

(***************************************************************************)
(* Bounds of the model                                                     *)
(***************************************************************************)
\* RateLimiter(redis_client) constructor parameter max_requests, instantiated small
max_requests == 2
\* number of concurrent callers of is_allowed in SpecRL
NCallers == 2
\* calls admitted beyond the limit before the environment stops sending
Extra == 0
\* clock step and horizon of SpecRL
TickStepRL == 1800
MaxTimeRL == 5400

\* clock step and horizon of Spec (the request pipeline)
TickStep == 400
MaxTime == 2000
\* number of WebSocket connections that come and go in SpecWS
NSockets == 3
\* number of rows the appointments table can hold in SpecAppt
NAppts == 2
\* SpecLock: minutes per clock step, last minute, and the largest value of
\* failed_login_attempts explored
LockTickStep == 10
MaxLockTime == 100
MaxAttempts == 7
\* number of refresh tokens that can be issued in SpecRT
NTokens == 3

(***************************************************************************)
(* Program constants                                                       *)
(***************************************************************************)
\* RateLimiter.__init__ default window
window == 3600
\* gateway verify_token: redis_client.setex(f"token:{token}", 600, ...)
GwTokenTTL == 600
\* auth service: ACCESS_TOKEN_EXPIRE_MINUTES * 60
AccessTokenTTL == 1800

Callers == 1..NCallers
\* identifier = f"{client_ip}:{user_agent}"
Idents == {"ipA:ua", "ipB:ua"}
\* the request whose way through the gateway pipeline is followed in Spec,
\* and the identifier of the client that sends it
Reqs == {1}
ReqIdents == {"ipA:ua"}

\* SERVICES
SERVICES == {"auth", "clients", "appointments", "medical", "billing",
             "notifications", "employees"}
\* routes that proxy with Depends(get_current_user)
ProtectedRoutes == {"clients", "appointments", "medical", "billing",
                    "notifications", "employees"}
\* /auth/login, /auth/register, /auth/refresh, /auth/forgot-password
PublicRoutes == {"auth"}
Routes == PublicRoutes \cup ProtectedRoutes \cup {"dashboard", "health"}
\* request.url.path as far as the pipeline can tell requests apart before
\* dispatch: GET /health, or any other path
Paths == {"/health", "other"}
\* response.headers["X-Request-ID"], response.headers["X-Process-Time"]
StampedHeaders == {"X-Request-ID", "X-Process-Time"}

\* access tokens: one the auth service can mint, one with a tampered signature
Mintable == {"tk1"}
Forged == {"tkX"}
AllTokens == Mintable \cup Forged
\* the user a minted token is issued to (claim "sub")
UserOf(t) == "u1"
\* Authorization header values a client can send ("" = header missing)
Headers == {"", "Bearer tk1", "tk1", "Bearer tkX"}

Absent == [user |-> "none", exp |-> 0, late |-> FALSE]
NoResp == [status |-> 0, user |-> "none", late |-> FALSE]
NoReq == [route |-> "none", hdr |-> "", user |-> "none", resp |-> NoResp,
          status |-> 0, did |-> {}, via |-> "none", hit |-> "none", bad |-> FALSE,
          late |-> FALSE, path |-> "", xhdr |-> {}, fault |-> {}]

VARIABLES
    now,         \* wall clock, seconds
    rateCount,   \* Redis db0: value of rate_limit:<identifier>, 0 = key absent
    rateExpire,  \* Redis db0: absolute expiry time of rate_limit:<identifier>
    pc,          \* control point of each request / caller
    ident,       \* identifier the call was made for
    result,      \* result[0] of pipe.execute() held by the call
    allowed,     \* value returned by is_allowed: "none" (not yet), "yes", "no"
    granted,     \* history: calls answered True during the key's current lifetime
    lastCall,    \* history: time of the last pipe.execute() per identifier,
                 \* -1 = none during the last `window` seconds
    obs,         \* history per call: what the call found when it executed
    handed,      \* history: post-increment counts handed out in the key's lifetime
    dup,         \* history: a count was handed out twice in one key lifetime
    tokExp,      \* exp claim of each access token, -1 = never minted
    authCache,   \* Redis db1 (auth service): entry under token:<token>
    gwCache,     \* Redis db0 (gateway): entry under token:<token>
    revoked,     \* history: logout was called with the token
    rtActive,    \* the user holds an active refresh token
    rq,          \* per request: inputs read so far, locals, response, history
    px,          \* one direct call of proxy_request: arguments and result
    fw,          \* one request forwarded by proxy_request: what was sent and relayed
    hc,          \* one run of health_check: probes made so far and the report
    ds,          \* one run of dashboard_summary: calls made so far and the summary
    ws,          \* ConnectionManager: active_connections and a running broadcast
    ap,          \* appointments service: the appointments table and the calls under way
    lk,          \* auth service: one account's failed-login counter and lock
    rt           \* auth service: the refresh_tokens table and the logins under way

rlVars == <<now, rateCount, rateExpire, pc, ident, result, allowed,
            granted, lastCall, obs, handed, dup>>
tokVars == <<tokExp, authCache, gwCache, revoked, rtActive>>
gwVars == <<rlVars, tokVars, rq>>
svcVars == <<ap, lk, rt>>
aux == <<fw, hc, ds, ws, svcVars>>
vars == <<gwVars, px, aux>>

NoObs == [full |-> FALSE, quiet |-> FALSE, stale |-> FALSE]

(***************************************************************************)
(* Shared cache: key expiry                                                *)
(***************************************************************************)
\* Redis removes a key once its TTL has elapsed
KeyExpired(expireAt, t) == expireAt <= t

\* time passes by d seconds; every key whose TTL elapsed disappears
Advance(d) ==
    /\ now' = now + d
    /\ authCache' = [t \in AllTokens |->
          IF KeyExpired(authCache[t].exp, now + d) THEN Absent ELSE authCache[t]]
    /\ gwCache' = [t \in AllTokens |->
          IF KeyExpired(gwCache[t].exp, now + d) THEN Absent ELSE gwCache[t]]
    /\ rateCount' = [i \in Idents |->
          IF rateCount[i] > 0 /\ KeyExpired(rateExpire[i], now + d) THEN 0 ELSE rateCount[i]]
    /\ rateExpire' = [i \in Idents |->
          IF rateCount[i] > 0 /\ KeyExpired(rateExpire[i], now + d) THEN 0 ELSE rateExpire[i]]
    /\ granted' = [i \in Idents |->
          IF rateCount[i] > 0 /\ KeyExpired(rateExpire[i], now + d) THEN 0 ELSE granted[i]]
    /\ handed' = [i \in Idents |->
          IF rateCount[i] > 0 /\ KeyExpired(rateExpire[i], now + d) THEN {} ELSE handed[i]]
    /\ lastCall' = [i \in Idents |->
          IF lastCall[i] # -1 /\ now + d - lastCall[i] >= window THEN -1 ELSE lastCall[i]]
    /\ obs' = [c \in Callers |->
          IF pc[c] = "rl_return" /\ KeyExpired(rateExpire[ident[c]], now + d)
          THEN [obs[c] EXCEPT !.stale = TRUE] ELSE obs[c]]

(***************************************************************************)
(* RateLimiter                                                             *)
(***************************************************************************)
\* pipe.incr(key): the value after the increment; an absent key counts as 0
IncrMutTwo(v) == v + 2
IncrMutLost(v) == IF v = 0 THEN 1 ELSE v
Incr(v) == v + 1

\* pipe.expire(key, self.window)
ExpireMutOnce(old, t) == IF old = 0 THEN t + window ELSE old
Expire(old, t) == t + window

\* return current_requests <= self.max_requests
IsAllowedResultMutPre(current_requests) == current_requests - 1 <= max_requests
IsAllowedResult(current_requests) == current_requests <= max_requests

\* pipe = redis.pipeline(); pipe.incr; pipe.expire; result = pipe.execute()
\* (MULTI/EXEC: both commands are applied in one step of the store)
IsAllowedExecute(c) ==
    /\ pc[c] = "rl_execute"
    /\ LET i == ident[c] IN
         /\ rateCount' = [rateCount EXCEPT ![i] = Incr(rateCount[i])]
         /\ rateExpire' = [rateExpire EXCEPT ![i] = Expire(rateExpire[i], now)]
         /\ result' = [result EXCEPT ![c] = Incr(rateCount[i])]
         /\ lastCall' = [lastCall EXCEPT ![i] = now]
         /\ obs' = [obs EXCEPT ![c] =
                      [full  |-> granted[i] = max_requests,
                       quiet |-> lastCall[i] = -1,
                       stale |-> FALSE]]
         /\ handed' = [handed EXCEPT ![i] = @ \cup {Incr(rateCount[i])}]
         /\ dup' = [dup EXCEPT ![i] = @ \/ Incr(rateCount[i]) \in handed[i]]
    /\ pc' = [pc EXCEPT ![c] = "rl_return"]
    /\ UNCHANGED <<now, ident, allowed, granted, tokVars, rq, px, aux>>

\* current_requests = result[0]; return current_requests <= self.max_requests
IsAllowedReturn(c) ==
    /\ pc[c] = "rl_return"
    /\ allowed' = [allowed EXCEPT ![c] = IF IsAllowedResult(result[c]) THEN "yes" ELSE "no"]
    /\ granted' = [granted EXCEPT ![ident[c]] =
                     IF IsAllowedResult(result[c]) /\ ~obs[c].stale
                     THEN @ + 1 ELSE @]
    /\ result' = [result EXCEPT ![c] = 0]
    /\ obs' = [obs EXCEPT ![c].stale = FALSE]
    /\ pc' = [pc EXCEPT ![c] = "mw_check"]
    /\ UNCHANGED <<now, rateCount, rateExpire, ident, lastCall, handed, dup, tokVars, rq, px, aux>>

\* a caller invokes rate_limiter.is_allowed(identifier)
CallIsAllowed(c) ==
    /\ pc[c] \in {"idle", "mw_check"}
    /\ \E i \in Idents :
         /\ rateCount[i] <= max_requests + Extra
         /\ ident' = [ident EXCEPT ![c] = i]
    /\ pc' = [pc EXCEPT ![c] = "rl_execute"]
    /\ result' = [result EXCEPT ![c] = 0]
    /\ allowed' = [allowed EXCEPT ![c] = "none"]
    /\ obs' = [obs EXCEPT ![c] = NoObs]
    /\ UNCHANGED <<now, rateCount, rateExpire, granted, lastCall, handed, dup, tokVars, rq, px, aux>>

TickRL ==
    /\ now + TickStepRL <= MaxTimeRL
    /\ Advance(TickStepRL)
    /\ UNCHANGED <<pc, ident, result, allowed, dup, tokExp, revoked, rtActive, rq, px, aux>>

(***************************************************************************)
(* Auth service (src/clients_pets_service/main.py)                         *)
(***************************************************************************)
\* jwt.decode + checks of verify_token(token): the payload, or "none" for a
\* bad signature or a token past its exp claim
JwtValid(t, time) == tokExp[t] # -1 /\ time <= tokExp[t]

\* verify_token_endpoint: redis_client.get(f"token:{token}"), `if cached_user:`
AuthCacheHit(entry) == entry.user # "none"

\* create_access_token + redis_client.setex(token:<t>, ACCESS_TOKEN_EXPIRE_MINUTES*60)
IssueAccessToken(t) ==
    /\ tokExp[t] = -1
    /\ tokExp' = [tokExp EXCEPT ![t] = now + AccessTokenTTL]
    /\ authCache' = [authCache EXCEPT ![t] =
                       [user |-> UserOf(t), exp |-> now + AccessTokenTTL, late |-> FALSE]]

\* POST /login with correct credentials
Login(t) ==
    /\ t \in Mintable
    /\ IssueAccessToken(t)
    /\ rtActive' = TRUE
    /\ UNCHANGED <<rlVars, gwCache, revoked, rq, px, aux>>

\* POST /refresh with the active refresh token
RefreshToken(t) ==
    /\ t \in Mintable
    /\ rtActive
    /\ IssueAccessToken(t)
    /\ UNCHANGED <<rlVars, gwCache, revoked, rtActive, rq, px, aux>>

\* POST /logout: delete token:<t> from db1, deactivate the refresh tokens
\* when the JWT still verifies
Logout(t) ==
    /\ tokExp[t] # -1 \/ t \in Forged
    /\ ~revoked[t]
    /\ authCache' = [authCache EXCEPT ![t] = Absent]
    /\ rtActive' = IF JwtValid(t, now) THEN FALSE ELSE rtActive
    /\ revoked' = [revoked EXCEPT ![t] = TRUE]
    /\ UNCHANGED <<rlVars, tokExp, gwCache, rq, px, aux>>

\* the response of GET /verify-token for token t
VerifyTokenEndpointResponse(t) ==
    IF AuthCacheHit(authCache[t])
    THEN [status |-> 200, user |-> authCache[t].user, late |-> revoked[t]]
    ELSE IF ~JwtValid(t, now)
    THEN [status |-> 401, user |-> "none", late |-> FALSE]
    ELSE [status |-> 200, user |-> UserOf(t), late |-> revoked[t]]

\* the db1 entry after GET /verify-token for token t:
\* setex(token:<t>, int(remaining_time), ...) when remaining_time > 0
VerifyTokenEndpointCache(t) ==
    IF ~AuthCacheHit(authCache[t]) /\ JwtValid(t, now) /\ tokExp[t] - now > 0
    THEN [user |-> UserOf(t), exp |-> now + (tokExp[t] - now), late |-> revoked[t]]
    ELSE authCache[t]

(***************************************************************************)
(* Gateway: verify_token, get_current_user                                 *)
(***************************************************************************)
\* token = token.replace("Bearer ", "")
StripBearer(h) ==
    CASE h = "Bearer tk1" -> "tk1"
      [] h = "Bearer tkX" -> "tkX"
      [] OTHER -> h

\* verify_token: redis_client.get(f"token:{token}"), `if cached_user:`
GwCacheHitMutNever(entry) == FALSE
GwCacheHit(entry) == entry.user # "none"

\* get_current_user: 401 when verify_token gave no user, 0 = no exception
GetCurrentUserMutPass(user) == 0
GetCurrentUser(user) == IF user = "none" THEN 401 ELSE 0

\* `if not await rate_limiter.is_allowed(identifier)`
RateLimitedMutNever(a) == FALSE
RateLimited(a) == a = "no"

\* the request after verify_token returned `user` to get_current_user
\* (the 401 of get_current_user comes back through call_next, so the
\* middleware adds its headers to it)
AfterVerify(r, user) ==
    [r EXCEPT !.user = user, !.status = GetCurrentUser(user),
              !.xhdr = IF GetCurrentUser(user) = 0 THEN @ ELSE StampedHeaders]
PcAfterVerify(user) == IF GetCurrentUser(user) = 0 THEN "handler" ELSE "done"

\* a request reaches logging_and_rate_limit_middleware
Arrive(c) ==
    /\ c \in Reqs
    /\ pc[c] \in {"idle", "done"}
    /\ \E i \in ReqIdents :
         /\ rateCount[i] <= max_requests + Extra
         /\ ident' = [ident EXCEPT ![c] = i]
    /\ pc' = [pc EXCEPT ![c] = "rl_execute"]
    /\ result' = [result EXCEPT ![c] = 0]
    /\ allowed' = [allowed EXCEPT ![c] = "none"]
    /\ obs' = [obs EXCEPT ![c] = NoObs]
    /\ \E p \in Paths : rq' = [rq EXCEPT ![c] = [NoReq EXCEPT !.path = p]]
    /\ UNCHANGED <<now, rateCount, rateExpire, granted, lastCall, handed, dup, tokVars, px, aux>>

\* middleware after is_allowed returned: 429, or call_next(request)
MwCheck(c) ==
    /\ pc[c] = "mw_check"
    /\ c \in Reqs
    /\ IF RateLimited(allowed[c])
       THEN /\ rq' = [rq EXCEPT ![c].status = 429]
            /\ pc' = [pc EXCEPT ![c] = "done"]
       ELSE /\ \E route \in Routes :
                 /\ route = "health" <=> rq[c].path = "/health"
                 /\ rq' = [rq EXCEPT ![c].route = route]
                 /\ pc' = [pc EXCEPT ![c] =
                             IF route \in PublicRoutes \cup {"health"}
                             THEN "handler" ELSE "verify_token"]
    /\ UNCHANGED <<now, rateCount, rateExpire, ident, result, allowed, granted,
                   lastCall, obs, handed, dup, tokVars, px, aux>>

\* verify_token up to the cache lookup
VerifyTokenCache(c) ==
    /\ pc[c] = "verify_token"
    /\ \E h \in Headers :
         LET t == StripBearer(h) IN
         /\ h # "" => tokExp[t] # -1 \/ t \in Forged
         /\ IF h = ""
            THEN /\ rq' = [rq EXCEPT ![c] = AfterVerify([@ EXCEPT !.via = "nohdr"], "none")]
                 /\ pc' = [pc EXCEPT ![c] = PcAfterVerify("none")]
            ELSE IF GwCacheHit(gwCache[t])
            THEN /\ rq' = [rq EXCEPT ![c] =
                       AfterVerify([@ EXCEPT !.hdr = h, !.via = "cache",
                                             !.hit = gwCache[t].user,
                                             !.bad = ~JwtValid(t, now),
                                             !.late = gwCache[t].late,
                                             !.did = @ \cup {"cache_read"}],
                                   gwCache[t].user)]
                 /\ pc' = [pc EXCEPT ![c] = PcAfterVerify(gwCache[t].user)]
            ELSE /\ rq' = [rq EXCEPT ![c] =
                       [@ EXCEPT !.hdr = h, !.via = "upstream",
                                 !.hit = gwCache[t].user,
                                 !.bad = ~JwtValid(t, now),
                                 !.did = @ \cup {"cache_read"}]]
                 /\ pc' = [pc EXCEPT ![c] = "vt_upstream"]
    /\ UNCHANGED <<now, rateCount, rateExpire, ident, result, allowed, granted,
                   lastCall, obs, handed, dup, tokVars, px, aux>>

\* the auth service answers the gateway's GET /verify-token
VerifyTokenEndpoint(c) ==
    /\ pc[c] = "vt_upstream"
    /\ LET t == StripBearer(rq[c].hdr) IN
         /\ rq' = [rq EXCEPT ![c].resp = VerifyTokenEndpointResponse(t),
                             ![c].did = @ \cup {"auth_call"}]
         /\ authCache' = [authCache EXCEPT ![t] = VerifyTokenEndpointCache(t)]
    /\ pc' = [pc EXCEPT ![c] = "vt_response"]
    /\ UNCHANGED <<now, rateCount, rateExpire, ident, result, allowed, granted,
                   lastCall, obs, handed, dup, tokExp, gwCache, revoked, rtActive, px, aux>>

\* the call to the auth service fails at transport level (httpx raises)
VerifyTokenUnreachable(c) ==
    /\ pc[c] = "vt_upstream"
    /\ rq' = [rq EXCEPT ![c].resp = [status |-> -1, user |-> "none", late |-> FALSE],
                        ![c].did = @ \cup {"auth_call"}]
    /\ pc' = [pc EXCEPT ![c] = "vt_response"]
    /\ UNCHANGED <<now, rateCount, rateExpire, ident, result, allowed, granted,
                   lastCall, obs, handed, dup, tokVars, px, aux>>

\* the db0 entry written when the auth service answered 200
GwCacheEntry(resp, t) == [user |-> resp.user, exp |-> now + GwTokenTTL, late |-> resp.late]

\* `if response.status_code == 200`
UpstreamAcceptsMutAny(resp) == resp.status > 0
UpstreamAccepts(resp) == resp.status = 200

\* verify_token from the auth service's answer to its return
VerifyTokenResponse(c) ==
    /\ pc[c] = "vt_response"
    /\ LET t == StripBearer(rq[c].hdr)
           resp == rq[c].resp IN
         IF UpstreamAccepts(resp)
         THEN /\ gwCache' = [gwCache EXCEPT ![t] = GwCacheEntry(resp, t)]
              /\ rq' = [rq EXCEPT ![c] = AfterVerify([@ EXCEPT !.late = resp.late], resp.user)]
              /\ pc' = [pc EXCEPT ![c] = PcAfterVerify(resp.user)]
         ELSE /\ gwCache' = gwCache
              /\ rq' = [rq EXCEPT ![c] = AfterVerify(@, "none")]
              /\ pc' = [pc EXCEPT ![c] = PcAfterVerify("none")]
    /\ UNCHANGED <<now, rateCount, rateExpire, ident, result, allowed, granted,
                   lastCall, obs, handed, dup, tokExp, authCache, revoked, rtActive, px, aux>>

(***************************************************************************)
(* Gateway: the shared cache (Redis db0) fails                             *)
(***************************************************************************)
\* is_allowed while Redis is unreachable: pipe.execute() raises
\* redis.ConnectionError; neither is_allowed nor the middleware catches it,
\* so the request ends in the framework's 500
IsAllowedCacheDown(c) ==
    /\ pc[c] = "rl_execute"
    /\ c \in Reqs
    /\ rq' = [rq EXCEPT ![c].status = 500, ![c].fault = @ \cup {"rate"}]
    /\ pc' = [pc EXCEPT ![c] = "done"]
    /\ UNCHANGED <<now, rateCount, rateExpire, ident, result, allowed, granted,
                   lastCall, obs, handed, dup, tokVars, px, aux>>

\* verify_token while Redis is unreachable: redis_client.get raises inside
\* the try block, `except Exception` logs it and verify_token returns None
VerifyTokenCacheDown(c) ==
    /\ pc[c] = "verify_token"
    /\ \E h \in Headers \ {""} :
         LET t == StripBearer(h) IN
         /\ tokExp[t] # -1 \/ t \in Forged
         /\ rq' = [rq EXCEPT ![c] =
                     AfterVerify([@ EXCEPT !.hdr = h, !.via = "cachefail",
                                           !.bad = ~JwtValid(t, now),
                                           !.fault = @ \cup {"token_read"}],
                                 "none")]
         /\ pc' = [pc EXCEPT ![c] = PcAfterVerify("none")]
    /\ UNCHANGED <<now, rateCount, rateExpire, ident, result, allowed, granted,
                   lastCall, obs, handed, dup, tokVars, px, aux>>

\* verify_token got 200 from the auth service and Redis fails at the write:
\* redis_client.setex raises before `return user_data`, `except Exception`
\* logs it and verify_token returns None
VerifyTokenStoreDown(c) ==
    /\ pc[c] = "vt_response"
    /\ UpstreamAccepts(rq[c].resp)
    /\ rq' = [rq EXCEPT ![c] =
                AfterVerify([@ EXCEPT !.fault = @ \cup {"token_write"}], "none")]
    /\ pc' = [pc EXCEPT ![c] = PcAfterVerify("none")]
    /\ UNCHANGED <<now, rateCount, rateExpire, ident, result, allowed, granted,
                   lastCall, obs, handed, dup, tokVars, px, aux>>

(***************************************************************************)
(* Gateway: proxy_request                                                  *)
(***************************************************************************)
\* what a call to a backend can come to
Outcomes ==
    {[kind |-> k, status |-> 0, body |-> "none"] : k \in {"timeout", "refused", "dns"}}
    \cup {[kind |-> "response", status |-> st, body |-> b] :
             st \in {200, 500}, b \in {"json", "badjson", "text"}}

\* proxy_request(service_name, path, request) for a backend call ending in `out`
ProxyRequestMutOrder(service_name, out) ==
    IF service_name \notin SERVICES
    THEN [status |-> 404, text |-> "not found", service |-> service_name, outbound |-> FALSE]
    ELSE CASE out.kind \in {"timeout", "refused", "dns"} ->
                [status |-> 503, text |-> "unavailable", service |-> service_name, outbound |-> TRUE]
           [] out.kind = "response" /\ out.body = "badjson" ->
                [status |-> 500, text |-> "Internal Server Error", service |-> "", outbound |-> TRUE]
           [] OTHER ->
                [status |-> out.status, text |-> "upstream", service |-> "", outbound |-> TRUE]
ProxyRequest(service_name, out) ==
    IF service_name \notin SERVICES
    THEN [status |-> 404, text |-> "not found", service |-> service_name, outbound |-> FALSE]
    ELSE CASE out.kind = "timeout" ->
                [status |-> 504, text |-> "Timeout calling", service |-> service_name, outbound |-> TRUE]
           [] out.kind \in {"refused", "dns"} ->
                [status |-> 503, text |-> "unavailable", service |-> service_name, outbound |-> TRUE]
           [] out.kind = "response" /\ out.body = "badjson" ->
                [status |-> 500, text |-> "Internal Server Error", service |-> "", outbound |-> TRUE]
           [] OTHER ->
                [status |-> out.status, text |-> "upstream", service |-> "", outbound |-> TRUE]

\* middleware after call_next: an exception that no handler caught passes
\* through the middleware, and the framework's 500 goes out as it is; any
\* other response gets X-Request-ID and X-Process-Time
MwResponseHeaders(r) ==
    IF r.status = 500 /\ r.text = "Internal Server Error" THEN {} ELSE StampedHeaders

\* the route handlers: login..employees_proxy call proxy_request(<service>, ...)
ProxyHandler(c) ==
    /\ pc[c] = "handler"
    /\ rq[c].route \notin {"dashboard", "health"}
    /\ \E out \in Outcomes :
         LET r == ProxyRequest(rq[c].route, out) IN
         rq' = [rq EXCEPT ![c].status = r.status,
                          ![c].did = IF r.outbound THEN @ \cup {"backend_call"} ELSE @,
                          ![c].xhdr = MwResponseHeaders(r)]
    /\ pc' = [pc EXCEPT ![c] = "done"]
    /\ UNCHANGED <<now, rateCount, rateExpire, ident, result, allowed, granted,
                   lastCall, obs, handed, dup, tokVars, px, aux>>

\* dashboard_summary: calls appointments, billing, notifications; every
\* exception is caught and the summary is returned
DashboardSummary(c) ==
    /\ pc[c] = "handler"
    /\ rq[c].route = "dashboard"
    /\ rq' = [rq EXCEPT ![c].status = 200, ![c].did = @ \cup {"backend_call"},
                        ![c].xhdr = StampedHeaders]
    /\ pc' = [pc EXCEPT ![c] = "done"]
    /\ UNCHANGED <<now, rateCount, rateExpire, ident, result, allowed, granted,
                   lastCall, obs, handed, dup, tokVars, px, aux>>

\* health_check behind the middleware: probes the backends and returns
\* the report with status 200
HealthCheckHandler(c) ==
    /\ pc[c] = "handler"
    /\ rq[c].route = "health"
    /\ rq' = [rq EXCEPT ![c].status = 200, ![c].did = @ \cup {"health_report"},
                        ![c].xhdr = StampedHeaders]
    /\ pc' = [pc EXCEPT ![c] = "done"]
    /\ UNCHANGED <<now, rateCount, rateExpire, ident, result, allowed, granted,
                   lastCall, obs, handed, dup, tokVars, px, aux>>

\* the arguments of a direct call of proxy_request
ServiceNames == SERVICES \cup {"payments", "AUTH"}
NoPx == [phase |-> "none", svc |-> "", out |-> [kind |-> "none", status |-> 0, body |-> "none"],
         status |-> 0, text |-> "", service |-> "", outbound |-> FALSE]

\* proxy_request runs on the arguments held in px
ProxyCall ==
    /\ px.phase = "call"
    /\ LET r == ProxyRequest(px.svc, px.out) IN
         px' = [px EXCEPT !.phase = "done", !.status = r.status, !.text = r.text,
                          !.service = r.service, !.outbound = r.outbound]
    /\ UNCHANGED <<gwVars, aux>>

\* the caller passes the next arguments to proxy_request
ProxyArgs ==
    /\ px.phase = "done"
    /\ \E sv \in ServiceNames, out \in Outcomes :
         px' = [NoPx EXCEPT !.phase = "call", !.svc = sv, !.out = out]
    /\ UNCHANGED <<gwVars, aux>>

(***************************************************************************)
(* Gateway: proxy_request, what is forwarded and what is relayed           *)
(***************************************************************************)
\* request.method of the inbound request
Methods == {"GET", "POST", "PUT", "PATCH", "DELETE"}
\* the body bytes the client sent (b"" = none)
Bodies == {"", "payload"}
\* header names as they appear on the wire, and their lower-case form
Lower(name) ==
    CASE name \in {"X-Request-ID", "x-request-id", "X-REQUEST-ID"} -> "x-request-id"
      [] name \in {"X-Forwarded-For", "x-forwarded-for", "X-FORWARDED-FOR"} -> "x-forwarded-for"
      [] name \in {"Content-Encoding", "content-encoding"} -> "content-encoding"
      [] name \in {"Transfer-Encoding", "transfer-encoding"} -> "transfer-encoding"
      [] name \in {"Content-Type", "content-type"} -> "content-type"
      [] name \in {"Set-Cookie", "set-cookie"} -> "set-cookie"
      [] name \in {"Accept", "accept"} -> "accept"
      [] OTHER -> name

\* request.state.request_id = str(uuid.uuid4()), request.client.host
RequestId == "uuid-1"
ClientHost == "10.0.0.5"
\* the header lines a client can send: Accept, and optionally its own
\* correlation id and its own forwarded-for address, in any letter case
ClientHeaderLines ==
    {{<<"Accept", "*/*">>} \cup a \cup b :
        a \in {{}} \cup {{<<n, "client-id">>} : n \in {"X-Request-ID", "x-request-id", "X-REQUEST-ID"}},
        b \in {{}} \cup {{<<n, "6.6.6.6">>} : n \in {"X-Forwarded-For", "x-forwarded-for", "X-FORWARDED-FOR"}}}

\* request.headers: the ASGI server hands header names over in lower case;
\* dict(request.headers) has one key per name
RequestHeadersDict(lines) == {<<Lower(h[1]), h[2]>> : h \in lines}
\* d[k] = v on a Python dict (keys are compared as they are spelled)
DictSet(d, k, v) == {p \in d : p[1] # k} \cup {<<k, v>>}
\* d.pop(k, None)
DictPop(d, k) == {p \in d : p[1] # k}

\* headers = dict(request.headers); headers["X-Request-ID"] = ...;
\* headers["X-Forwarded-For"] = ...
OutboundHeaders(lines, request_id, host) ==
    DictSet(DictSet(RequestHeadersDict(lines), "X-Request-ID", request_id),
            "X-Forwarded-For", host)

\* body = None; if request.method in ["POST", "PUT", "PATCH"]: body = await request.body()
OutboundBodyMutAlways(method, body) == body
OutboundBody(method, body) ==
    IF method \in {"POST", "PUT", "PATCH"} THEN body ELSE "None"

\* the header lines of an upstream response: Content-Type as the body kind
\* announces it, and optionally framing headers and headers of the backend
UpstreamHeaderLines(kind) ==
    {{<<"Content-Type", IF kind = "text" THEN "text/html" ELSE "application/json">>}
        \cup a \cup b \cup c :
        a \in {{}, {<<"Content-Encoding", "gzip">>}, {<<"content-encoding", "gzip">>}},
        b \in {{}, {<<"Transfer-Encoding", "chunked">>}},
        c \in {{}, {<<"Set-Cookie", "sid=1">>},
                  {<<"Set-Cookie", "sid=1">>, <<"set-cookie", "theme=2">>}}}

\* the value httpx gives for a name that came on several lines: the values
\* joined by ", "; and the values such a joined value stands for
Folded(values) ==
    IF Cardinality(values) = 1 THEN CHOOSE v \in values : TRUE ELSE "sid=1, theme=2"
Parts(value) == IF value = "sid=1, theme=2" THEN {"sid=1", "theme=2"} ELSE {value}

\* dict(response.headers): httpx gives the names in lower case, one key per name
ResponseHeadersDict(lines) ==
    {<<n, Folded({h[2] : h \in {g \in lines : Lower(g[1]) = n}})>> :
        n \in {Lower(h[1]) : h \in lines}}
\* response_headers.pop('content-encoding', None); .pop('transfer-encoding', None)
RelayedHeadersMutKeep(lines) == ResponseHeadersDict(lines)
RelayedHeaders(lines) ==
    DictPop(DictPop(ResponseHeadersDict(lines), "content-encoding"), "transfer-encoding")

\* response.headers.get('content-type', '').startswith('application/json')
AnnouncesJson(lines) ==
    \E h \in lines : Lower(h[1]) = "content-type" /\ h[2] = "application/json"

NoFw == [phase |-> "idle", method |-> "", body |-> "", lines |-> {},
         sentMethod |-> "", sentBody |-> "None", sentHeaders |-> {},
         up |-> [status |-> 0, kind |-> "none", lines |-> {}],
         status |-> 0, mode |-> "none", headers |-> {}]

\* a client request reaches a proxy route: its method and body
ForwardArrive ==
    /\ fw.phase = "idle"
    /\ \E m \in Methods, b \in Bodies :
         fw' = [NoFw EXCEPT !.phase = "arrived", !.method = m, !.body = b]
    /\ UNCHANGED <<gwVars, px, hc, ds, ws, svcVars>>

\* ... and its header lines
ForwardRead ==
    /\ fw.phase = "arrived"
    /\ \E ls \in ClientHeaderLines : fw' = [fw EXCEPT !.phase = "call", !.lines = ls]
    /\ UNCHANGED <<gwVars, px, hc, ds, ws, svcVars>>

\* proxy_request up to client.request(method=, headers=, content=)
ForwardSend ==
    /\ fw.phase = "call"
    /\ fw' = [fw EXCEPT !.phase = "sent",
                        !.sentMethod = fw.method,
                        !.sentBody = OutboundBody(fw.method, fw.body),
                        !.sentHeaders = OutboundHeaders(fw.lines, RequestId, ClientHost)]
    /\ UNCHANGED <<gwVars, px, hc, ds, ws, svcVars>>

\* content=response.json() if <announces json> else response.text:
\* response.json() raises json.JSONDecodeError on a body that is not JSON,
\* which neither except clause of proxy_request catches ("fault")
RelayMode(lines, kind) ==
    IF AnnouncesJson(lines)
    THEN (IF kind = "badjson" THEN "fault" ELSE "json")
    ELSE "text"

\* the backend answers and proxy_request builds the JSONResponse; an
\* exception that leaves proxy_request is answered 500 by the framework
ForwardRelay ==
    /\ fw.phase = "sent"
    /\ \E st \in {200, 404}, k \in {"json", "badjson", "text"} :
         \E ls \in UpstreamHeaderLines(k) :
            fw' = [fw EXCEPT
                     !.phase = "done",
                     !.up = [status |-> st, kind |-> k, lines |-> ls],
                     !.mode = RelayMode(ls, k),
                     !.status = IF RelayMode(ls, k) = "fault" THEN 500 ELSE st,
                     !.headers = IF RelayMode(ls, k) = "fault"
                                 THEN {} ELSE RelayedHeaders(ls)]
    /\ UNCHANGED <<gwVars, px, hc, ds, ws, svcVars>>

\* the response has gone out; the next request can come
ForwardDone ==
    /\ fw.phase = "done"
    /\ fw' = NoFw
    /\ UNCHANGED <<gwVars, px, hc, ds, ws, svcVars>>

(***************************************************************************)
(* Gateway: health_check                                                   *)
(***************************************************************************)
\* SERVICES.items(), in the order of the dict literal
ServiceOrder == <<"auth", "clients", "appointments", "medical", "billing",
                  "notifications", "employees">>
\* what client.get(f"{url}/health") with timeout=5.0 can come to
ProbeOutcomes ==
    {[kind |-> "response", status |-> 200, error |-> ""],
     [kind |-> "response", status |-> 503, error |-> ""],
     [kind |-> "raise", status |-> 0, error |-> "timed out"],
     [kind |-> "raise", status |-> 0, error |-> "connection refused"]}

\* services_health[name] for a probe that came to `out`
ProbeEntry(name, out) ==
    IF out.kind = "response"
    THEN [name |-> name,
          status |-> IF out.status = 200 THEN "healthy" ELSE "unhealthy",
          status_code |-> out.status, error |-> ""]
    ELSE [name |-> name, status |-> "unhealthy", status_code |-> 0, error |-> out.error]

\* all(s["status"] == "healthy" for s in services_health.values())
AllHealthyMutAny(services_health) ==
    \E i \in 1..Len(services_health) : services_health[i].status = "healthy"
AllHealthy(services_health) ==
    \A i \in 1..Len(services_health) : services_health[i].status = "healthy"

NoHc == [phase |-> "idle", probes |-> <<>>, services_health |-> <<>>, status |-> ""]

\* health_check is entered: services_health = {}
HealthStart ==
    /\ hc.phase = "idle"
    /\ hc' = [NoHc EXCEPT !.phase = "probing"]
    /\ UNCHANGED <<gwVars, px, fw, ds, ws, svcVars>>

\* one turn of `for name, url in SERVICES.items()`: the probe and its entry
HealthProbe ==
    /\ hc.phase = "probing"
    /\ Len(hc.services_health) < Len(ServiceOrder)
    /\ \E out \in ProbeOutcomes :
         hc' = [hc EXCEPT
                  !.probes = Append(@, out),
                  !.services_health =
                      Append(@, ProbeEntry(ServiceOrder[Len(hc.services_health) + 1], out))]
    /\ UNCHANGED <<gwVars, px, fw, ds, ws, svcVars>>

\* after the loop: all_healthy and the returned report
HealthReport ==
    /\ hc.phase = "probing"
    /\ Len(hc.services_health) = Len(ServiceOrder)
    /\ hc' = [hc EXCEPT !.phase = "done",
                        !.status = IF AllHealthy(hc.services_health)
                                   THEN "healthy" ELSE "degraded"]
    /\ UNCHANGED <<gwVars, px, fw, ds, ws, svcVars>>

\* the report has gone out; the next health check can come
HealthDone ==
    /\ hc.phase = "done"
    /\ hc' = NoHc
    /\ UNCHANGED <<gwVars, px, fw, ds, ws, svcVars>>

(***************************************************************************)
(* Gateway: dashboard_summary                                              *)
(***************************************************************************)
\* the three calls in the order of the code, and the field each one fills
DashServices == <<"appointments", "billing", "notifications">>
DashFields == <<"todays_appointments", "pending_invoices", "pending_notifications">>
\* what client.get(...) with timeout=10.0 can come to: an answer (whose body
\* response.json() can parse or not) or an exception of httpx
DashOutcomes ==
    {[kind |-> "response", status |-> 200, body |-> "json"],
     [kind |-> "response", status |-> 200, body |-> "badjson"],
     [kind |-> "response", status |-> 500, body |-> "json"],
     [kind |-> "response", status |-> 404, body |-> "json"],
     [kind |-> "timeout", status |-> 0, body |-> "none"],
     [kind |-> "refused", status |-> 0, body |-> "none"]}

\* the call raises inside the try block: httpx raises, or response.json()
\* does on a 200 whose body is not JSON
DashRaises(out) ==
    out.kind # "response" \/ (out.status = 200 /\ out.body = "badjson")

NoDs == [phase |-> "idle", backend |-> <<>>, called |-> 0, summary |-> {}, status |-> 0]

\* dashboard_summary is entered (summary = {}); how each of the three
\* backends is going to answer is fixed by the environment
DashStart ==
    /\ ds.phase = "idle"
    /\ \E b \in [1..3 -> DashOutcomes] :
         ds' = [NoDs EXCEPT !.phase = "try", !.backend = b]
    /\ UNCHANGED <<gwVars, px, fw, hc, ws, svcVars>>

\* the next client.get(...) inside the one try block: a 200 fills its field,
\* another status fills nothing, an exception ends the try block with
\* summary["error"]
DashCall ==
    /\ ds.phase = "try"
    /\ ds.called < 3
    /\ LET k == ds.called + 1
           out == ds.backend[k] IN
         ds' = [ds EXCEPT
                  !.called = k,
                  !.summary = IF DashRaises(out) THEN @ \cup {"error"}
                              ELSE IF out.status = 200 THEN @ \cup {DashFields[k]}
                              ELSE @,
                  !.phase = IF DashRaises(out) THEN "return" ELSE "try"]
    /\ UNCHANGED <<gwVars, px, fw, hc, ws, svcVars>>

\* return summary
DashReturn ==
    /\ ds.phase = "return" \/ (ds.phase = "try" /\ ds.called = 3)
    /\ ds' = [ds EXCEPT !.phase = "done", !.status = 200]
    /\ UNCHANGED <<gwVars, px, fw, hc, ws, svcVars>>

\* the summary has gone out; the next request can come
DashDone ==
    /\ ds.phase = "done"
    /\ ds' = NoDs
    /\ UNCHANGED <<gwVars, px, fw, hc, ws, svcVars>>

(***************************************************************************)
(* Gateway: ConnectionManager, websocket_endpoint                          *)
(***************************************************************************)
Sockets == 1..NSockets
Range(seq) == {seq[i] : i \in 1..Len(seq)}
\* list.remove(x): the list without its first x; the list has an x
RemoveFirst(seq, x) ==
    LET k == CHOOSE i \in 1..Len(seq) :
                 seq[i] = x /\ \A j \in 1..(i - 1) : seq[j] # x
    IN  SubSeq(seq, 1, k - 1) \o SubSeq(seq, k + 1, Len(seq))

\* ConnectionManager.disconnect: self.active_connections.remove(websocket),
\* which raises ValueError when the websocket is not in the list
Disconnect(active, w) ==
    IF w \in Range(active)
    THEN [active |-> RemoveFirst(active, w), raised |-> FALSE]
    ELSE [active |-> active, raised |-> TRUE]

NoBroadcast == [phase |-> "idle", i |-> 0, start |-> <<>>, bad |-> {},
                delivered |-> {}, mixed |-> FALSE,
                attempted |-> {}, twice |-> FALSE, stayed |-> {}]
NoWs == [active |-> <<>>,
         closed |-> {},
         removed |-> {},
         ep |-> [w \in Sockets |-> "none"],
         bc |-> NoBroadcast]

\* another coroutine changed the picture while a broadcast was running
Mixed(bc) == [bc EXCEPT !.mixed = @ \/ bc.phase = "running"]

\* websocket_endpoint starts: manager.connect(websocket) accepts and appends
Connect(w) ==
    /\ ws.ep[w] = "none"
    /\ ws' = [ws EXCEPT !.active = Append(@, w),
                        !.ep[w] = "receiving",
                        !.bc = Mixed(@)]
    /\ UNCHANGED <<gwVars, px, fw, hc, ds, svcVars>>

\* websocket_endpoint starts and the handshake of manager.connect fails:
\* accept raises, nothing is appended and the handler ends
AcceptFails(w) ==
    /\ ws.ep[w] = "none"
    /\ ws' = [ws EXCEPT !.ep[w] = "ended"]
    /\ UNCHANGED <<gwVars, px, fw, hc, ds, svcVars>>

\* the peer of a connection goes away: from now on send_text raises and
\* receive_text raises WebSocketDisconnect
PeerClose(w) ==
    /\ ws.ep[w] = "receiving"
    /\ w \notin ws.closed
    /\ ws' = [ws EXCEPT !.closed = @ \cup {w}, !.bc = Mixed(@)]
    /\ UNCHANGED <<gwVars, px, fw, hc, ds, svcVars>>

\* websocket_endpoint: except WebSocketDisconnect: manager.disconnect(websocket);
\* a ValueError of disconnect leaves the handler unhandled ("crashed")
EndpointDisconnect(w) ==
    /\ ws.ep[w] = "receiving"
    /\ w \in ws.closed
    /\ LET r == Disconnect(ws.active, w) IN
         ws' = [ws EXCEPT !.active = r.active,
                          !.removed = IF r.raised THEN @ ELSE @ \cup {w},
                          !.ep[w] = IF r.raised THEN "crashed" ELSE "ended",
                          !.bc = [Mixed(@) EXCEPT !.stayed = @ \ {w}]]
    /\ UNCHANGED <<gwVars, px, fw, hc, ds, svcVars>>

\* websocket_endpoint: receive_text raises something else than
\* WebSocketDisconnect (a binary frame has no "text"): the except clause
\* does not match, the handler ends without manager.disconnect and the
\* server closes the socket
EndpointFault(w) ==
    /\ ws.ep[w] = "receiving"
    /\ w \notin ws.closed
    /\ ws' = [ws EXCEPT !.ep[w] = "faulted",
                        !.closed = @ \cup {w},
                        !.bc = Mixed(@)]
    /\ UNCHANGED <<gwVars, px, fw, hc, ds, svcVars>>

\* manager.broadcast(message) is called: iter(self.active_connections)
BroadcastStart ==
    /\ ws.bc.phase # "running"
    /\ ws.active # <<>>
    /\ ws' = [ws EXCEPT !.bc = [NoBroadcast EXCEPT
                                  !.phase = "running",
                                  !.start = ws.active,
                                  !.bad = ws.closed \cap Range(ws.active),
                                  !.stayed = Range(ws.active)]]
    /\ UNCHANGED <<gwVars, px, fw, hc, ds, svcVars>>

\* one turn of `for connection in self.active_connections`: the list
\* iterator hands out the element at its index and moves on by one; a
\* failed send_text removes the connection from the list being iterated
BroadcastSend ==
    /\ ws.bc.phase = "running"
    /\ ws.bc.i < Len(ws.active)
    /\ LET connection == ws.active[ws.bc.i + 1] IN
         IF connection \in ws.closed
         THEN ws' = [ws EXCEPT !.active = RemoveFirst(@, connection),
                               !.removed = @ \cup {connection},
                               !.bc.attempted = @ \cup {connection},
                               !.bc.twice = @ \/ connection \in ws.bc.attempted,
                               !.bc.i = @ + 1]
         ELSE ws' = [ws EXCEPT !.bc.delivered = @ \cup {connection},
                               !.bc.attempted = @ \cup {connection},
                               !.bc.twice = @ \/ connection \in ws.bc.attempted,
                               !.bc.i = @ + 1]
    /\ UNCHANGED <<gwVars, px, fw, hc, ds, svcVars>>

\* the iterator is exhausted: broadcast returns
BroadcastReturn ==
    /\ ws.bc.phase = "running"
    /\ ws.bc.i >= Len(ws.active)
    /\ ws' = [ws EXCEPT !.bc.phase = "returned", !.bc.i = 0]
    /\ UNCHANGED <<gwVars, px, fw, hc, ds, svcVars>>

(***************************************************************************)
(* Appointments service (src/auth_service/main.py)                         *)
(***************************************************************************)
\* rows of the appointments table, all of one veterinarian on one date
ApptIds == 1..NAppts
\* requests being handled at the same time
ApCallers == {1, 2}
\* scheduled_time, in minutes after opening
ApTimes == {0, 15, 30}
\* the statuses a client can put into AppointmentUpdate.status ("unset" =
\* field not sent)
ApStatuses == {"scheduled", "confirmed", "cancelled"}
\* Appointment.status.in_([scheduled, confirmed, in_progress])
Blocking == {"scheduled", "confirmed", "in_progress"}
\* "Duración por defecto", and the length assumed for a row without
\* estimated_end_time (no handler ever sets it)
DefaultDuration == 30

NoRow == [exists |-> FALSE, time |-> 0, status |-> "none"]
NoCall == [op |-> "none", phase |-> "idle", id |-> 0, time |-> -1,
           status |-> "unset", code |-> 0]
NoAp == [table |-> [i \in ApptIds |-> NoRow],
         call |-> [k \in ApCallers |-> NoCall]]

\* not (end_datetime <= existing_start or start_datetime >= existing_end)
Overlaps(start, duration, existing_start) ==
    ~(start + duration <= existing_start
      \/ start >= existing_start + DefaultDuration)

\* check_availability(veterinarian_id, scheduled_date, scheduled_time,
\* duration_minutes, db, exclude_appointment_id)
CheckAvailability(table, time, duration, exclude) ==
    \A i \in ApptIds \ {exclude} :
        (table[i].exists /\ table[i].status \in Blocking)
            => ~Overlaps(time, duration, table[i].time)

\* create_appointment up to the availability check: 409 when taken
CreateCheck(k) ==
    /\ ap.call[k].phase = "idle"
    /\ \E i \in ApptIds : ~ap.table[i].exists
    /\ \E t \in ApTimes :
         ap' = [ap EXCEPT !.call[k] =
                  IF CheckAvailability(ap.table, t, DefaultDuration, 0)
                  THEN [NoCall EXCEPT !.op = "create", !.phase = "commit", !.time = t]
                  ELSE [NoCall EXCEPT !.op = "create", !.phase = "done", !.time = t,
                                      !.code = 409]]
    /\ UNCHANGED <<gwVars, px, fw, hc, ds, ws, lk, rt>>

\* create_appointment: db.add(db_appointment); db.commit() (status takes
\* the column default "scheduled")
CreateCommit(k) ==
    /\ ap.call[k].op = "create" /\ ap.call[k].phase = "commit"
    /\ \E i \in ApptIds : ~ap.table[i].exists
    /\ LET i == CHOOSE j \in ApptIds :
                    ~ap.table[j].exists /\ \A h \in 1..(j - 1) : ap.table[h].exists
       IN  ap' = [ap EXCEPT
                    !.table[i] = [exists |-> TRUE, time |-> ap.call[k].time,
                                  status |-> "scheduled"],
                    !.call[k] = [@ EXCEPT !.phase = "done", !.id = i, !.code = 200]]
    /\ UNCHANGED <<gwVars, px, fw, hc, ds, ws, lk, rt>>

\* update_appointment up to the availability check, which is made only
\* when the update carries a date, a time or a veterinarian
UpdateCheck(k) ==
    /\ ap.call[k].phase = "idle"
    /\ \E i \in ApptIds, t \in ApTimes \cup {-1}, st \in ApStatuses \cup {"unset"} :
         /\ ap.table[i].exists
         /\ t # -1 \/ st # "unset"
         /\ ap' = [ap EXCEPT !.call[k] =
                     IF t # -1 /\ ~CheckAvailability(ap.table, t, DefaultDuration, i)
                     THEN [NoCall EXCEPT !.op = "update", !.phase = "done", !.id = i,
                                         !.time = t, !.status = st, !.code = 409]
                     ELSE [NoCall EXCEPT !.op = "update", !.phase = "commit", !.id = i,
                                         !.time = t, !.status = st]]
    /\ UNCHANGED <<gwVars, px, fw, hc, ds, ws, lk, rt>>

\* update_appointment: setattr for every field that was sent; db.commit()
UpdateCommit(k) ==
    /\ ap.call[k].op = "update" /\ ap.call[k].phase = "commit"
    /\ LET c == ap.call[k] IN
         ap' = [ap EXCEPT
                  !.table[c.id] =
                      [@ EXCEPT !.time = IF c.time = -1 THEN @ ELSE c.time,
                                !.status = IF c.status = "unset" THEN @ ELSE c.status],
                  !.call[k] = [@ EXCEPT !.phase = "done", !.code = 200]]
    /\ UNCHANGED <<gwVars, px, fw, hc, ds, ws, lk, rt>>

\* the response has gone out; the caller can send the next request
ApDone(k) ==
    /\ ap.call[k].phase = "done"
    /\ ap' = [ap EXCEPT !.call[k] = NoCall]
    /\ UNCHANGED <<gwVars, px, fw, hc, ds, ws, lk, rt>>

(***************************************************************************)
(* Auth service: login lockout (src/clients_pets_service/main.py)          *)
(***************************************************************************)
\* "Bloquear cuenta después de 5 intentos fallidos"
LockThreshold == 5
\* timedelta(minutes=30)
LockMinutes == 30
\* locked_until = None
NoLock == -1

\* One active user row.  now: utcnow() in minutes; attempts:
\* int(failed_login_attempts); code/last: the answer of the latest login;
\* streak: wrong passwords the account has taken since the latest successful
\* login or expired lock (attempts answered "locked" not counted).
NoLk == [now |-> 0, attempts |-> 0, locked_until |-> NoLock,
         code |-> 0, last |-> "none", streak |-> 0]

\* user.locked_until and user.locked_until > datetime.utcnow()
is_account_locked(u) == u.locked_until # NoLock /\ u.locked_until > u.now

\* increment_failed_attempts
increment_failed_attempts(u) ==
    LET current_attempts == u.attempts + 1 IN
    [u EXCEPT !.attempts = current_attempts,
              !.locked_until = IF current_attempts >= LockThreshold
                               THEN u.now + LockMinutes ELSE @]

\* reset_failed_attempts
reset_failed_attempts(u) == [u EXCEPT !.attempts = 0, !.locked_until = NoLock]

\* POST /login for the user, with a right or a wrong password
LoginAttempt ==
    /\ lk.attempts < MaxAttempts
    /\ \E password_ok \in BOOLEAN :
         lk' = IF is_account_locked(lk)
               THEN [lk EXCEPT !.code = 401, !.last = "locked"]
               ELSE IF ~password_ok
               THEN [increment_failed_attempts(lk) EXCEPT
                        !.code = 401, !.last = "failed",
                        !.streak = IF lk.locked_until # NoLock THEN 1 ELSE @ + 1]
               ELSE [reset_failed_attempts(lk) EXCEPT
                        !.code = 200, !.last = "success", !.streak = 0]
    /\ UNCHANGED <<gwVars, px, fw, hc, ds, ws, ap, rt>>

\* time passes
LockTick ==
    /\ lk.now + LockTickStep <= MaxLockTime
    /\ lk' = [lk EXCEPT !.now = @ + LockTickStep]
    /\ UNCHANGED <<gwVars, px, fw, hc, ds, ws, ap, rt>>

(***************************************************************************)
(* Auth service: refresh tokens (src/clients_pets_service/main.py)         *)
(***************************************************************************)
\* rows of refresh_tokens, all of one user
RtIds == 1..NTokens
\* logins being handled at the same time, each in its own database session
RtCallers == {1, 2}

\* issued/active/expired: the committed rows (exists, is_active,
\* expires_at <= utcnow()); login[k]: where login k stands in
\* create_refresh_token and the rows its UPDATE matched; last: the latest
\* answer of /refresh (wasDead: the token was inactive when presented).
NoRt == [issued |-> {}, active |-> {}, expired |-> {},
         login |-> [k \in RtCallers |-> [phase |-> "idle", seen |-> {}]],
         last |-> [op |-> "none", token |-> 0, code |-> 0, wasDead |-> FALSE]]

\* create_refresh_token, the UPDATE: the user's rows with is_active = True
\* that the statement sees are marked inactive inside the open transaction
LoginDeactivate(k) ==
    /\ rt.login[k].phase = "idle"
    /\ Cardinality(rt.issued)
         + Cardinality({j \in RtCallers : rt.login[j].phase = "insert"}) < NTokens
    /\ rt' = [rt EXCEPT !.login[k] = [phase |-> "insert", seen |-> rt.active]]
    /\ UNCHANGED <<gwVars, px, fw, hc, ds, ws, ap, lk>>

\* create_refresh_token, db.add(db_token); db.commit(): the update and the
\* new row (is_active defaults to True) become visible together
LoginInsertCommit(k) ==
    /\ rt.login[k].phase = "insert"
    /\ LET t == CHOOSE j \in RtIds \ rt.issued : \A h \in RtIds \ rt.issued : j <= h
       IN  rt' = [rt EXCEPT !.issued = @ \cup {t},
                            !.active = (@ \ rt.login[k].seen) \cup {t},
                            !.login[k] = [phase |-> "idle", seen |-> {}]]
    /\ UNCHANGED <<gwVars, px, fw, hc, ds, ws, ap, lk>>

\* POST /refresh with token t: accepted when the row is active and not
\* expired; the same refresh token is handed back
RefreshEndpoint(t) ==
    /\ t \in rt.issued
    /\ rt' = [rt EXCEPT !.last =
                [op |-> "refresh", token |-> t,
                 code |-> IF t \in rt.active /\ t \notin rt.expired THEN 200 ELSE 401,
                 wasDead |-> t \notin rt.active]]
    /\ UNCHANGED <<gwVars, px, fw, hc, ds, ws, ap, lk>>

\* POST /logout: the user's active rows are deactivated when the access
\* token presented still verifies
LogoutEndpoint ==
    /\ \E payload \in BOOLEAN :
         rt' = [rt EXCEPT !.active = IF payload THEN {} ELSE @,
                          !.last = [op |-> "logout", token |-> 0, code |-> 200,
                                    wasDead |-> FALSE]]
    /\ UNCHANGED <<gwVars, px, fw, hc, ds, ws, ap, lk>>

\* POST /reset-password: 400 for a bad reset token, otherwise every refresh
\* token of the user is deactivated
ResetPassword ==
    /\ \E reset_token \in BOOLEAN :
         rt' = [rt EXCEPT !.active = IF reset_token THEN {} ELSE @,
                          !.last = [op |-> "reset", token |-> 0,
                                    code |-> IF reset_token THEN 200 ELSE 400,
                                    wasDead |-> FALSE]]
    /\ UNCHANGED <<gwVars, px, fw, hc, ds, ws, ap, lk>>

\* expires_at of token t passes
RtExpire(t) ==
    /\ t \in rt.issued \ rt.expired
    /\ rt' = [rt EXCEPT !.expired = @ \cup {t}]
    /\ UNCHANGED <<gwVars, px, fw, hc, ds, ws, ap, lk>>


InitAux ==
    /\ fw = NoFw
    /\ hc = NoHc
    /\ ds = NoDs
    /\ ws = NoWs
    /\ ap = NoAp
    /\ lk = NoLk
    /\ rt = NoRt

Tick ==
    /\ now + TickStep <= MaxTime
    /\ Advance(TickStep)
    /\ UNCHANGED <<pc, ident, result, allowed, dup, tokExp, revoked, rtActive, rq, px, aux>>

InitGw ==
    /\ now = 0
    /\ rateCount = [i \in Idents |-> 0]
    /\ rateExpire = [i \in Idents |-> 0]
    /\ pc = [c \in Callers |-> "idle"]
    /\ ident = [c \in Callers |-> "ipA:ua"]
    /\ result = [c \in Callers |-> 0]
    /\ allowed = [c \in Callers |-> "none"]
    /\ granted = [i \in Idents |-> 0]
    /\ lastCall = [i \in Idents |-> -1]
    /\ obs = [c \in Callers |-> NoObs]
    /\ handed = [i \in Idents |-> {}]
    /\ dup = [i \in Idents |-> FALSE]
    /\ tokExp = [t \in AllTokens |-> -1]
    /\ authCache = [t \in AllTokens |-> Absent]
    /\ gwCache = [t \in AllTokens |-> Absent]
    /\ revoked = [t \in AllTokens |-> FALSE]
    \* the user logged in during an earlier session: that access token is
    \* long expired, the refresh token (7 days) is still active
    /\ rtActive = TRUE
    /\ rq = [c \in Callers |-> NoReq]

Init ==
    /\ InitGw
    /\ px = NoPx
    /\ InitAux

InitProxy ==
    /\ InitGw
    /\ \E sv \in ServiceNames, out \in Outcomes :
         px = [NoPx EXCEPT !.phase = "call", !.svc = sv, !.out = out]
    /\ InitAux

NextRL ==
    \/ \E c \in Callers : CallIsAllowed(c)
    \/ \E c \in Callers : IsAllowedExecute(c)
    \/ \E c \in Callers : IsAllowedReturn(c)
    \/ TickRL

SpecRL == Init /\ [][NextRL]_vars

Next ==
    \/ \E c \in Reqs : Arrive(c)
    \/ \E c \in Reqs : IsAllowedExecute(c)
    \/ \E c \in Reqs : IsAllowedReturn(c)
    \/ \E c \in Reqs : MwCheck(c)
    \/ \E c \in Reqs : VerifyTokenCache(c)
    \/ \E c \in Reqs : VerifyTokenEndpoint(c)
    \/ \E c \in Reqs : VerifyTokenUnreachable(c)
    \/ \E c \in Reqs : VerifyTokenResponse(c)
    \/ \E c \in Reqs : ProxyHandler(c)
    \/ \E c \in Reqs : DashboardSummary(c)
    \/ \E c \in Reqs : HealthCheckHandler(c)
    \/ \E t \in AllTokens : Login(t)
    \/ \E t \in AllTokens : RefreshToken(t)
    \/ \E t \in AllTokens : Logout(t)
    \/ Tick

Spec == Init /\ [][Next]_vars

\* the request pipeline with a shared cache that can fail
NextFault ==
    \/ Next
    \/ \E c \in Reqs : IsAllowedCacheDown(c)
    \/ \E c \in Reqs : VerifyTokenCacheDown(c)
    \/ \E c \in Reqs : VerifyTokenStoreDown(c)

SpecFault == Init /\ [][NextFault]_vars

NextProxy ==
    \/ ProxyCall
    \/ ProxyArgs

SpecProxy == InitProxy /\ [][NextProxy]_vars

NextForward ==
    \/ ForwardArrive
    \/ ForwardRead
    \/ ForwardSend
    \/ ForwardRelay
    \/ ForwardDone

SpecForward == Init /\ [][NextForward]_vars

NextHealth ==
    \/ HealthStart
    \/ HealthProbe
    \/ HealthReport
    \/ HealthDone

SpecHealth == Init /\ [][NextHealth]_vars

NextDash ==
    \/ DashStart
    \/ DashCall
    \/ DashReturn
    \/ DashDone

SpecDash == Init /\ [][NextDash]_vars

NextWS ==
    \/ \E w \in Sockets : Connect(w)
    \/ \E w \in Sockets : PeerClose(w)
    \/ \E w \in Sockets : EndpointDisconnect(w)
    \/ \E w \in Sockets : AcceptFails(w)
    \/ \E w \in Sockets : EndpointFault(w)
    \/ BroadcastStart
    \/ BroadcastSend
    \/ BroadcastReturn

SpecWS == Init /\ [][NextWS]_vars

NextAppt ==
    \/ \E k \in ApCallers : CreateCheck(k)
    \/ \E k \in ApCallers : CreateCommit(k)
    \/ \E k \in ApCallers : UpdateCheck(k)
    \/ \E k \in ApCallers : UpdateCommit(k)
    \/ \E k \in ApCallers : ApDone(k)

SpecAppt == Init /\ [][NextAppt]_vars

NextLock ==
    \/ LoginAttempt
    \/ LockTick

SpecLock == Init /\ [][NextLock]_vars

NextRT ==
    \/ \E k \in RtCallers : LoginDeactivate(k)
    \/ \E k \in RtCallers : LoginInsertCommit(k)
    \/ \E t \in RtIds : RefreshEndpoint(t)
    \/ LogoutEndpoint
    \/ ResetPassword
    \/ \E t \in RtIds : RtExpire(t)

SpecRT == Init /\ [][NextRT]_vars

(***************************************************************************)
(* Properties of the rate limiter (SpecRL)                                 *)
(***************************************************************************)
Returned(c) == allowed[c] # "none"

\* C1: a call made after max_requests calls were allowed in the key's
\* lifetime is denied, and a call made after a full window without any call
\* for the identifier is allowed.
C1_DenyThenRecover ==
    \A c \in Callers :
        /\ Returned(c) /\ obs[c].full => allowed[c] = "no"
        /\ Returned(c) /\ obs[c].quiet => allowed[c] = "yes"

C1_Witness ==
    \E c, d \in Callers :
        /\ ident[c] = ident[d]
        /\ allowed[c] = "no" /\ obs[c].full
        /\ allowed[d] = "yes" /\ obs[d].quiet /\ now >= window

\* C2: whatever the interleaving, the increment and the expiry are applied
\* together, the calls of one window all hold different post-increment
\* counts, and at most max_requests of them are answered True.
C2_AtomicCounter ==
    /\ \A i \in Idents :
          /\ granted[i] <= max_requests
          /\ ~dup[i]
          /\ rateCount[i] > 0 => lastCall[i] # -1 /\ rateExpire[i] = lastCall[i] + window
    /\ \A c, d \in Callers :
          (/\ c # d /\ ident[c] = ident[d]
           /\ result[c] > 0 /\ result[d] > 0
           /\ ~obs[c].stale /\ ~obs[d].stale) => result[c] # result[d]

C2_Witness ==
    \E c, d \in Callers :
        /\ c # d /\ ident[c] = ident[d]
        /\ pc[c] = "rl_return" /\ pc[d] = "rl_return"
        /\ ~obs[c].stale /\ ~obs[d].stale
        /\ result[c] = max_requests
        /\ result[d] = max_requests + 1


\* C25: every call sets the expiry of the identifier's counter to a full
\* window after the call, and the counter disappears only when at least a
\* window has passed since the last call for the identifier; while calls
\* keep coming at shorter gaps it stays.
C25_ExpiryResetOnEveryCall ==
    [][\A i \in Idents :
         /\ (\E c \in Callers :
                /\ pc[c] = "rl_execute" /\ pc'[c] = "rl_return" /\ ident[c] = i)
               => rateExpire'[i] = now + window
         /\ (rateCount[i] > 0 /\ rateCount'[i] = 0)
               => now' - lastCall[i] >= window
         /\ (rateCount[i] > 0 /\ lastCall[i] # -1 /\ now' - lastCall[i] < window)
               => rateCount'[i] >= rateCount[i]]_vars

C25_Witness ==
    \E i \in Idents :
        /\ now = 2 * TickStepRL /\ now >= window
        /\ lastCall[i] = TickStepRL
        /\ rateCount[i] = max_requests + 1
        /\ granted[i] = max_requests
        /\ rateExpire[i] = TickStepRL + window

\* C26: every call, allowed or denied, raises the identifier's counter by
\* exactly one, the counter only falls when its key expires, and the call's
\* answer is True exactly when the count after its own increment is at most
\* max_requests; a call made when the counter is already beyond
\* max_requests is denied.
C26_CounterMonotone ==
    [][/\ \A i \in Idents :
            \/ rateCount'[i] = rateCount[i]
            \/ /\ rateCount'[i] = rateCount[i] + 1
               /\ \E c \in Callers :
                     /\ pc[c] = "rl_execute" /\ pc'[c] = "rl_return" /\ ident[c] = i
                     /\ result'[c] = rateCount'[i]
            \/ rateCount'[i] = 0 /\ now' > now
       /\ \A c \in Callers :
            /\ (pc[c] = "rl_execute" /\ pc'[c] = "rl_return") =>
                  /\ rateCount'[ident[c]] = rateCount[ident[c]] + 1
                  /\ rateCount[ident[c]] >= max_requests => result'[c] > max_requests
            /\ (pc[c] = "rl_return" /\ pc'[c] = "mw_check") =>
                  /\ allowed'[c] = "yes" <=> result[c] <= max_requests
                  /\ allowed'[c] \in {"yes", "no"}]_vars

C26_Witness ==
    \E c, d \in Callers :
        /\ c # d /\ ident[c] = ident[d]
        /\ allowed[c] = "no" /\ pc[c] = "mw_check"
        /\ pc[d] = "rl_return" /\ result[d] = max_requests + 2 /\ ~obs[d].stale
        /\ rateCount[ident[c]] = max_requests + 2


(***************************************************************************)
(* Properties of the request pipeline (Spec)                               *)
(***************************************************************************)
NeedsUser(route) == route \in ProtectedRoutes \cup {"dashboard"}
\* verify_token has returned to get_current_user for request c
VerifyReturned(c) == NeedsUser(rq[c].route) /\ pc[c] \in {"handler", "done"}
TokenOf(c) == StripBearer(rq[c].hdr)

\* C3: a request that is_allowed denied is answered 429 at once: it is
\* never at a later step of the pipeline and it has read no token cache,
\* called neither the auth service nor a backend.
C3_DeniedStopsPipeline ==
    \A c \in Reqs :
        allowed[c] = "no" =>
            /\ pc[c] \in {"mw_check", "done"}
            /\ rq[c].did = {}
            /\ rq[c].route = "none"
            /\ pc[c] = "done" => rq[c].status = 429

C3_Witness ==
    \E c \in Reqs : allowed[c] = "no" /\ pc[c] = "done" /\ rq[c].status = 429

\* C4: on a protected route a backend is called only for a request to
\* which verify_token returned an identity; when it returned None the
\* answer is 401 and no backend was called.
C4_BackendOnlyAfterIdentity ==
    \A c \in Reqs :
        NeedsUser(rq[c].route) =>
            /\ "backend_call" \in rq[c].did => rq[c].user # "none"
            /\ pc[c] = "handler" => rq[c].user # "none"
            /\ VerifyReturned(c) /\ rq[c].user = "none" =>
                   /\ pc[c] = "done"
                   /\ rq[c].status = 401
                   /\ "backend_call" \notin rq[c].did

C4_Witness ==
    \E c \in Reqs :
        /\ rq[c].route \in ProtectedRoutes /\ pc[c] = "done"
        /\ rq[c].via = "upstream" /\ rq[c].user = "none"
        /\ rq[c].status = 401 /\ "backend_call" \notin rq[c].did

\* C5: when the gateway cache held an entry for the presented token at the
\* lookup, verify_token returned that entry's identity and the request
\* made no call to the auth service.
C5_CacheHitNoUpstream ==
    \A c \in Reqs :
        rq[c].hit # "none" =>
            /\ rq[c].via = "cache"
            /\ rq[c].user = rq[c].hit
            /\ "auth_call" \notin rq[c].did

C5_Witness ==
    \E c \in Reqs :
        /\ rq[c].hit = "u1" /\ rq[c].user = "u1"
        /\ pc[c] = "done" /\ "backend_call" \in rq[c].did
        /\ "auth_call" \notin rq[c].did

\* C6: when verify_token gets the auth service's answer after a cache miss,
\* a 200 stores the identity under the token for 600 seconds and returns
\* it; any other status or a transport failure returns None and leaves the
\* gateway cache as it was.
C6_MissPath ==
    [][\A c \in Reqs :
         (pc[c] = "vt_response" /\ pc'[c] # "vt_response") =>
            IF rq[c].resp.status = 200
            THEN /\ gwCache'[TokenOf(c)].user = rq[c].resp.user
                 /\ gwCache'[TokenOf(c)].exp = now + 600
                 /\ rq'[c].user = rq[c].resp.user
                 /\ \A t \in AllTokens \ {TokenOf(c)} : gwCache'[t] = gwCache[t]
            ELSE /\ rq'[c].user = "none"
                 /\ gwCache' = gwCache]_vars

C6_Witness ==
    \E c \in Reqs :
        /\ rq[c].via = "upstream" /\ rq[c].resp.status = 200
        /\ rq[c].user = "u1"
        /\ gwCache[TokenOf(c)].user = "u1"
        /\ gwCache[TokenOf(c)].exp = now + 600

\* C7: no token:<token> entry, in the gateway's cache or in the auth
\* service's, expires later than the token itself.
C7_NoEntryOutlivesToken ==
    \A t \in AllTokens :
        /\ gwCache[t].user # "none" => gwCache[t].exp <= tokExp[t]
        /\ authCache[t].user # "none" => authCache[t].exp <= tokExp[t]

\* C8: when the presented token is expired or tampered at the lookup,
\* verify_token returns None, on the cache path and on the upstream path.
C8_BadTokenRejected ==
    \A c \in Reqs :
        VerifyReturned(c) /\ rq[c].bad => rq[c].user = "none"

\* C9: the gateway's cache entries live at most 600 seconds, and no
\* identity that verify_token returns rests on an acceptance that the auth
\* service gave after the token's logout.
C9_RevokedStalenessBounded ==
    /\ \A t \in AllTokens : gwCache[t].user # "none" => gwCache[t].exp <= now + 600
    /\ \A c \in Reqs : rq[c].user # "none" => ~rq[c].late

\* C15: every response the gateway has returned carries X-Request-ID and
\* X-Process-Time, whatever its status.
C15_EveryResponseStamped ==
    \A c \in Reqs :
        pc[c] = "done" /\ rq[c].status # 0 => StampedHeaders \subseteq rq[c].xhdr

\* C16: a GET /health request is never inside RateLimiter.is_allowed, gets
\* no answer from it, and is answered with the health report.
C16_HealthBypassesRateLimit ==
    \A c \in Reqs :
        rq[c].path = "/health" =>
            /\ pc[c] \notin {"rl_execute", "rl_return"}
            /\ allowed[c] = "none"
            /\ pc[c] = "done" => rq[c].status = 200 /\ "health_report" \in rq[c].did

\* C27: once logout was called with a token, the auth service holds no
\* token:<token> entry for it any more and answers no /verify-token call for
\* it with an identity.
C27_LogoutRevokesToken ==
    /\ \A t \in AllTokens : revoked[t] => ~AuthCacheHit(authCache[t])
    /\ \A c \in Reqs : rq[c].resp.status = 200 => ~rq[c].resp.late

(***************************************************************************)
(* Properties of proxy_request (SpecProxy)                                 *)
(***************************************************************************)
\* C10: an unknown service name gives 404 without an outbound call, an
\* upstream timeout gives 504, any other transport failure gives 503, and
\* the detail of each names the service.
C10_FailureKinds ==
    px.phase = "done" =>
        /\ px.svc \notin SERVICES =>
              px.status = 404 /\ ~px.outbound /\ px.service = px.svc
        /\ px.svc \in SERVICES /\ px.out.kind = "timeout" =>
              px.status = 504 /\ px.outbound /\ px.service = px.svc
        /\ px.svc \in SERVICES /\ px.out.kind \in {"refused", "dns"} =>
              px.status = 503 /\ px.outbound /\ px.service = px.svc

C10_Witness ==
    /\ px.phase = "done" /\ px.svc \in SERVICES
    /\ px.out.kind = "timeout" /\ px.status = 504


(***************************************************************************)
(* Properties of what proxy_request forwards and relays (SpecForward)      *)
(***************************************************************************)
\* C11: the backend gets the inbound method; it gets the inbound body
\* bytes when the method is POST, PUT or PATCH, and no body at all when the
\* method is GET or DELETE, whatever body the client sent.
C11_MethodAndBodyForwarded ==
    fw.phase \in {"sent", "done"} =>
        /\ fw.sentMethod = fw.method
        /\ fw.method \in {"POST", "PUT", "PATCH"} => fw.sentBody = fw.body
        /\ fw.method \in {"GET", "DELETE"} => fw.sentBody = "None"

C11_Witness ==
    /\ fw.phase = "sent" /\ fw.method = "DELETE"
    /\ fw.body = "payload" /\ fw.sentBody = "None" /\ fw.sentMethod = "DELETE"


C13_BadResponsePassedAsText ==
    fw.phase = "done" =>
        /\ fw.up.kind = "badjson" =>
              fw.mode = "text" /\ fw.status = fw.up.status
        /\ ~AnnouncesJson(fw.up.lines) =>
              fw.mode = "text" /\ fw.status = fw.up.status


\* C14: the request sent to the backend has exactly one correlation-id
\* header, holding the id the middleware assigned, and exactly one
\* forwarded-for header, holding the connection's client address; what the
\* client sent under either name, in any letter case, does not reach the
\* backend.
C14_TrustedHeadersOverwritten ==
    fw.phase \in {"sent", "done"} =>
        /\ {p \in fw.sentHeaders : Lower(p[1]) = "x-request-id"}
              = {<<"X-Request-ID", RequestId>>}
        /\ {p \in fw.sentHeaders : Lower(p[1]) = "x-forwarded-for"}
              = {<<"X-Forwarded-For", ClientHost>>}
        /\ \A p \in fw.sentHeaders : p[2] \notin {"client-id", "6.6.6.6"}


(***************************************************************************)
(* Properties of health_check (SpecHealth)                                 *)
(***************************************************************************)
\* C17: a finished health check has probed every configured backend, its
\* overall status is "healthy" exactly when every probe was answered 200
\* and "degraded" otherwise, and the entry of every failing service is
\* "unhealthy" with the status code or the error text of its probe.
C17_HealthReport ==
    hc.phase = "done" =>
        /\ Len(hc.services_health) = Cardinality(SERVICES)
        /\ {hc.services_health[i].name : i \in 1..Len(hc.services_health)} = SERVICES
        /\ hc.status = "healthy" <=>
              \A i \in 1..Len(hc.probes) :
                  hc.probes[i].kind = "response" /\ hc.probes[i].status = 200
        /\ hc.status \in {"healthy", "degraded"}
        /\ \A i \in 1..Len(hc.probes) :
              LET out == hc.probes[i]
                  e == hc.services_health[i] IN
              /\ out.kind = "response" /\ out.status # 200 =>
                    e.status = "unhealthy" /\ e.status_code = out.status
              /\ out.kind = "raise" =>
                    e.status = "unhealthy" /\ e.error = out.error

C17_Witness ==
    /\ hc.phase = "done" /\ hc.status = "degraded"
    /\ hc.probes[1].kind = "raise"
    /\ \A i \in 2..Len(hc.probes) : hc.probes[i].status = 200
    /\ hc.services_health[7].status = "healthy"


(***************************************************************************)
(* Properties of dashboard_summary (SpecDash)                              *)
(***************************************************************************)
\* the backend's call fails: transport error, timeout or a non-200 status
DashFails(out) == out.kind # "response" \/ out.status # 200
DashSucceeds(out) == out.kind = "response" /\ out.status = 200 /\ out.body = "json"

\* C18: when exactly one of the three backends fails (by transport error,
\* timeout or non-200 status) and the other two answer, the returned summary
\* holds the fields of the other two and the error annotation, and the
\* request is answered 200.
C18_OneFailureKeepsTheRest ==
    ds.phase = "done" =>
        \A k \in 1..3 :
            (/\ DashFails(ds.backend[k])
             /\ \A j \in (1..3) \ {k} : DashSucceeds(ds.backend[j])) =>
                /\ ds.status = 200
                /\ "error" \in ds.summary
                /\ \A j \in (1..3) \ {k} : DashFields[j] \in ds.summary


(***************************************************************************)
(* Properties of ConnectionManager (SpecWS)                                *)
(***************************************************************************)
\* C19: after a broadcast during which nothing else touched the
\* connections and in which exactly one of the live connections failed its
\* write, every other connection of the live list got the message and the
\* live list is the list of before without the failing connection.
C19_BroadcastPrunesOnlyFailed ==
    (/\ ws.bc.phase = "returned"
     /\ ~ws.bc.mixed
     /\ Cardinality(ws.bc.bad) = 1) =>
        \A k \in ws.bc.bad :
            /\ ws.bc.delivered = Range(ws.bc.start) \ {k}
            /\ ws.active = RemoveFirst(ws.bc.start, k)

\* C20: disconnect never raises: called for a connection that is not in
\* the live list it changes nothing and the handler ends normally.
C20_DisconnectIdempotent ==
    \A w \in Sockets : ws.ep[w] # "crashed"


\* C21: whatever connects and disconnects interleave with a broadcast, the
\* live list holds no connection twice, and the broadcast (even one none of
\* whose own writes failed) has made exactly one write to every connection
\* that was in the live list from its start to its return: none was
\* skipped, none was written twice.
C21_BroadcastUnderChurn ==
    /\ Cardinality(Range(ws.active)) = Len(ws.active)
    /\ (ws.bc.phase = "returned" /\ ws.bc.attempted = ws.bc.delivered) =>
          /\ ws.bc.stayed \subseteq ws.bc.attempted
          /\ ~ws.bc.twice

\* C22: a connection is in the live list only after its handshake has
\* completed, a connection that disconnect or a failed broadcast write
\* removed is never in the live list again, and a connection whose handler
\* has ended is not in the live list.
C22_ConnectionLifecycle ==
    \A w \in Sockets :
        /\ w \in Range(ws.active) => ws.ep[w] # "none"
        /\ w \in ws.removed => w \notin Range(ws.active)
        /\ ws.ep[w] \in {"ended", "crashed", "faulted"} => w \notin Range(ws.active)


(***************************************************************************)
(* Properties of the pipeline when the shared cache fails (SpecFault)      *)
(***************************************************************************)
\* C23: a request whose rate-limit check met a failing cache is allowed
\* (is_allowed answers True) and is not answered with a 500.
C23_RateLimiterFailsOpen ==
    \A c \in Reqs :
        "rate" \in rq[c].fault =>
            /\ allowed[c] = "yes"
            /\ rq[c].status # 500

\* C24: when the cache read or the cache write of verify_token failed and
\* the auth service accepts the presented token, verify_token returns the
\* identity and the request is not answered 401.
C24_VerifyFallsBackToAuth ==
    \A c \in Reqs :
        (/\ VerifyReturned(c)
         /\ \/ "token_read" \in rq[c].fault /\ ~rq[c].bad
            \/ "token_write" \in rq[c].fault /\ rq[c].resp.status = 200) =>
            /\ rq[c].user # "none"
            /\ rq[c].status # 401


(***************************************************************************)
(* Properties of the appointments service (SpecAppt)                       *)
(***************************************************************************)
\* C28: after any sequence of create and update calls, no two appointments
\* of the veterinarian on the date whose status is scheduled, confirmed or
\* in progress overlap in time.
C28_NoOverlappingAppointments ==
    \A i, j \in ApptIds :
          (/\ i # j
           /\ ap.table[i].exists /\ ap.table[j].exists
           /\ ap.table[i].status \in Blocking /\ ap.table[j].status \in Blocking)
              => ~Overlaps(ap.table[i].time, DefaultDuration, ap.table[j].time)


(***************************************************************************)
(* Properties of the login lockout (SpecLock)                              *)
(***************************************************************************)
\* C29: the account is locked only after it has taken 5 wrong passwords in
\* a row since its latest successful login or expired lock (so that after a
\* lock has expired it tolerates 4 more); a login answered while locked is
\* a 401; a successful login leaves the counter at 0 and no lock.
C29_LockoutStateMachine ==
    /\ is_account_locked(lk) => lk.streak >= LockThreshold
    /\ lk.last = "locked" => lk.code = 401
    /\ lk.last = "success" => lk.attempts = 0 /\ lk.locked_until = NoLock


(***************************************************************************)
(* Properties of the refresh tokens (SpecRT)                               *)
(***************************************************************************)
\* C30: the user has at most one active refresh token, and /refresh never
\* accepts a token that has been deactivated.
C30_OneActiveRefreshToken ==
    /\ Cardinality(rt.active) <= 1
    /\ rt.last.op = "refresh" /\ rt.last.code = 200 => ~rt.last.wasDead

=============================================================================
